---- MODULE Spec2Model ----
(***************************************************************************)
(* Gollum: a WebSocket <-> Ollama streaming bridge (main.go).              *)
(*                                                                         *)
(* One session (goroutine running handleWebSocket) per accepted           *)
(* connection.  A session reads inbound JSON frames, and for each frame    *)
(* of type "message" writes response_start, calls queryOllamaStreaming     *)
(* and forwards the decoded stream objects through the callback.           *)
(*                                                                         *)
(* Library behaviour the code relies on:                                   *)
(*   - http.Post returns an error only when no response could be           *)
(*     obtained; a non-2xx status is a normal response (err == nil).       *)
(*   - json.Decoder.More() is  `c, err := peek(); err == nil && c != ']'   *)
(*     && c != '}'`: it is false at the end of the body, and also when     *)
(*     the next non-blank byte is a closing bracket or brace.              *)
(*   - json.Decoder.Decode(&v) fails on a syntactically invalid or         *)
(*     truncated value; unknown keys are ignored, missing keys leave the   *)
(*     zero value.                                                         *)
(*   - conn.WriteJSON errors are discarded by the code (`_ =`).            *)
(***************************************************************************)
EXTENDS Integers, Sequences, FiniteSets, TLC

\* ------------------------------------------------------------------ bounds
MaxPrompts == 2     \* "message" frames handled on one connection
MaxBody    == 2     \* items in one backend response body
MaxInbox   == 1     \* inbound frames buffered on one connection

Sessions == {1, 2}  \* connections that may be accepted
Solo     == {1}     \* the single connection of the one-session specification

\* ------------------------------------------------------------ JSON values
Str(v) == [k |-> "str", v |-> v]
Nil    == [k |-> "nil", v |-> ""]       \* key absent from the map
Num    == [k |-> "num", v |-> "42"]     \* a value that is not a string

\* Inbound frames: what conn.ReadJSON(&msg) can be handed by the peer.
Frame(t, c) == [ok |-> TRUE, type |-> t, content |-> c]
ReadFailed  == [ok |-> FALSE, type |-> Nil, content |-> Nil]  \* ReadJSON returned an error

MessageFrames == {Frame(Str("message"), c) : c \in {Str("hi"), Nil, Num}}
OtherFrames   == {Frame(t, Str("hi")) : t \in {Str("ping"), Nil, Num}}
InboundFrames == MessageFrames \cup OtherFrames \cup {ReadFailed}

\* Outbound frames: the map[string]string values handed to conn.WriteJSON.
ResponseStart  == [type |-> "response_start", content |-> Nil]
ResponseChunk(c) == [type |-> "response_chunk", content |-> Str(c)]
ResponseEnd    == [type |-> "response_end", content |-> Nil]
ErrorText      == "Sorry, I encountered an error processing your request."

\* Faulty variant of OllamaRequest: streaming is not asked for.
OllamaRequestNoStream(prompt) == [model |-> "llama2", prompt |-> prompt, stream |-> FALSE]

\* OllamaRequest as built by queryOllamaStreaming.
OllamaRequest(prompt) == [model |-> "llama2", prompt |-> prompt, stream |-> TRUE]
NoRequest == [model |-> "", prompt |-> "", stream |-> FALSE]

\* ------------------------------------------------------- backend response
\* One item of a response body as the decoder meets it:
\*   frag   - a JSON value that decodes into OllamaStreamResponse
\*   bad    - bytes on which Decode returns an error
\*   closer - a stray ']' or '}' (More() reports false on it)
Texts == {"", "a"}
Frag(t, d) == [k |-> "frag", text |-> t, done |-> d]
Bad        == [k |-> "bad", text |-> "", done |-> FALSE]
Closer     == [k |-> "closer", text |-> "", done |-> FALSE]
Items      == {Frag(t, d) : t \in Texts, d \in BOOLEAN} \cup {Bad, Closer}

NonFinal    == {Frag(t, FALSE) : t \in Texts}
Terminators == {Frag(t, TRUE) : t \in Texts} \cup {Bad, Closer}

\* Text of the i-th fragment of a stream: empty and non-empty texts alternate,
\* starting with either, so that a lost, repeated or misplaced chunk shows.
AltText(i, first) == IF (i + first) % 2 = 0 THEN "a" ELSE ""

\* Bodies of at most n items: non-final fragments, then possibly an item that
\* ends the decoding (a done=true fragment, undecodable bytes, a stray
\* closer), then possibly one more fragment behind it.
Prefixes(n) ==
    {[i \in 1..k |-> Frag(AltText(i, first), FALSE)] : k \in 0..n, first \in {0, 1}}
BodiesUpTo(n) ==
    Prefixes(n)
    \cup {Append(p, x) : p \in Prefixes(n - 1), x \in Terminators}
    \cup {Append(Append(p, x), Frag("a", FALSE)) :
             p \in Prefixes(n - 2), x \in Terminators}

\* The body of a non-200 reply: Ollama's {"error":"..."} object, which decodes
\* into OllamaStreamResponse with Response = "" and Done = false.
ErrorBody == <<Frag("", FALSE)>>

StatusOK  == 200
StatusErr == 500

VARIABLES
    pc,          \* per session: "upgrade" | "read" | "post" | "more" | "ret" | "done"
    conn,        \* per session: "none" | "open" | "closed"
    peer,        \* per session: "up" | "gone"
    inbox,       \* per session: number of frames the peer sent that are not yet read
    msg,         \* per session: what the latest conn.ReadJSON(&msg) produced
    userMessage, \* per session: the prompt of the message being handled
    out,         \* per session: frames handed to conn.WriteJSON, tagged with the prompt number
    werr,        \* per session: some WriteJSON failed (peer gone)
    nprompt,     \* per session: number of "message" frames dispatched
    nreq,        \* per session: number of requests handed to http.Post
    req,         \* per session: the latest request handed to http.Post
    status,      \* per session: HTTP status of the latest response (0: none)
    body,        \* per session: body of the latest response
    pos,         \* per session: index of the next undecoded item of body
    cb,          \* per session: callback invocations of the latest call
    err,         \* per session: the latest call returned a non-nil error
    respOpen     \* per session: a response body is open (not yet Closed)

vars == <<pc, conn, peer, inbox, msg, userMessage, out, werr, nprompt, nreq, req,
          status, body, pos, cb, err, respOpen>>

callVars == <<status, body, pos, cb, err, respOpen>>

Init ==
    /\ pc = [s \in Sessions |-> "upgrade"]
    /\ conn = [s \in Sessions |-> "none"]
    /\ peer = [s \in Sessions |-> "up"]
    /\ inbox = [s \in Sessions |-> 0]
    /\ msg = [s \in Sessions |-> Frame(Nil, Nil)]
    /\ userMessage = [s \in Sessions |-> ""]
    /\ out = [s \in Sessions |-> <<>>]
    /\ werr = [s \in Sessions |-> FALSE]
    /\ nprompt = [s \in Sessions |-> 0]
    /\ nreq = [s \in Sessions |-> 0]
    /\ req = [s \in Sessions |-> NoRequest]
    /\ status = [s \in Sessions |-> 0]
    /\ body = [s \in Sessions |-> <<>>]
    /\ pos = [s \in Sessions |-> 1]
    /\ cb = [s \in Sessions |-> <<>>]
    /\ err = [s \in Sessions |-> FALSE]
    /\ respOpen = [s \in Sessions |-> FALSE]

\* ---------------------------------------------------------------- helpers
\* Faulty variant of IsMessage: only a string type other than "message" is skipped.
IsMessageLoose(m) == m.type.k = "str" => m.type.v = "message"

\* switch msg["type"] { case "message": ... }
IsMessage(m) == m.type = Str("message")

\* Faulty variant of ContentOf: the value is used whatever its type.
ContentOfAny(m) == m.content.v

\* userMessage, _ := msg["content"].(string)
ContentOf(m) == IF m.content.k = "str" THEN m.content.v ELSE ""

\* Faulty variant of Callback: empty chunks are not forwarded.
CallbackSkipEmpty(chunk, done) ==
    IF ~done THEN (IF chunk = "" THEN <<>> ELSE <<ResponseChunk(chunk)>>)
    ELSE <<ResponseEnd>>

\* Faulty variant of Callback: the final object's text is forwarded before response_end.
CallbackForwardDone(chunk, done) ==
    IF ~done THEN <<ResponseChunk(chunk)>>
    ELSE <<ResponseChunk(chunk), ResponseEnd>>

\* The callback passed to queryOllamaStreaming: the frames it writes.
Callback(chunk, done) ==
    IF ~done THEN <<ResponseChunk(chunk)>> ELSE <<ResponseEnd>>

\* Faulty variant of ErrorFrames: the error chunk is missing.
ErrorFramesNoChunk == <<ResponseEnd>>

\* The frames written when queryOllamaStreaming returned an error.
ErrorFrames == <<ResponseChunk(ErrorText), ResponseEnd>>

\* decoder.More() with the decoder at item i of body b.
More(b, i) == i <= Len(b) /\ b[i].k # "closer"

\* decoder.Decode(&streamResp) returns an error on item x.
DecodeFails(x) == x.k = "bad"

\* Faulty variant of BreakOnDone: the loop goes on after the final object.
NeverBreak(done) == FALSE

\* if streamResp.Done { break }
BreakOnDone(done) == done

\* Faulty variant of WriteJSON: frames go to every open connection.
WriteJSONBroadcast(s, fs, p) ==
    /\ out' = [t \in Sessions |->
                 IF t = s \/ conn[t] = "open"
                 THEN out[t] \o [i \in 1..Len(fs) |-> [type |-> fs[i].type,
                                                       content |-> fs[i].content,
                                                       p |-> p]]
                 ELSE out[t]]
    /\ werr' = [werr EXCEPT ![s] = @ \/ (fs # <<>> /\ peer[s] = "gone")]

\* conn.WriteJSON of the frames fs, in order, while handling prompt number p.
\* A write to a peer that is gone fails; the error is discarded.
WriteJSON(s, fs, p) ==
    /\ out' = [out EXCEPT ![s] =
                 @ \o [i \in 1..Len(fs) |-> [type |-> fs[i].type,
                                             content |-> fs[i].content,
                                             p |-> p]]]
    /\ werr' = [werr EXCEPT ![s] = @ \/ (fs # <<>> /\ peer[s] = "gone")]

\* Faulty variant of Close: one connection shared by all sessions.
CloseAll(s) == conn' = [t \in Sessions |-> IF conn[t] = "open" THEN "closed" ELSE conn[t]]

\* defer conn.Close()
Close(s) == conn' = [conn EXCEPT ![s] = "closed"]

\* Faulty variant of CloseBody: the body is released only after a clean end.
CloseBodyUnlessError(s) ==
    respOpen' = [respOpen EXCEPT ![s] =
                   pos[s] <= Len(body[s]) /\ DecodeFails(body[s][pos[s]])]

\* defer resp.Body.Close(), run at every return that follows it.
CloseBody(s) == respOpen' = [respOpen EXCEPT ![s] = FALSE]

\* Faulty variant of OnReadError: `continue` in place of `break`.
OnReadErrorContinue(s) == UNCHANGED <<pc, conn>>

\* if err := conn.ReadJSON(&msg); err != nil { log; break }
OnReadError(s) ==
    /\ pc' = [pc EXCEPT ![s] = "done"]
    /\ Close(s)

\* ---------------------------------------------------------------- actions
\* conn, err := upgrader.Upgrade(w, r, nil)
Upgrade(s) ==
    /\ pc[s] = "upgrade"
    /\ \/ /\ pc' = [pc EXCEPT ![s] = "read"]
          /\ conn' = [conn EXCEPT ![s] = "open"]
       \/ /\ pc' = [pc EXCEPT ![s] = "done"]     \* handshake failed: log, return
          /\ UNCHANGED conn
    /\ UNCHANGED <<peer, inbox, msg, userMessage, out, werr, nprompt, nreq, req>>
    /\ UNCHANGED callVars

\* The peer sends one frame (environment).  What the frame holds is drawn
\* when the session reads it: the session cannot look at it before.
ClientSend(s, maxInbox) ==
    /\ conn[s] = "open"
    /\ peer[s] = "up"
    /\ inbox[s] < maxInbox
    /\ inbox' = [inbox EXCEPT ![s] = @ + 1]
    /\ UNCHANGED <<pc, conn, peer, msg, userMessage, out, werr, nprompt, nreq, req>>
    /\ UNCHANGED callVars

\* The peer disconnects (environment).
ClientGone(s) ==
    /\ conn[s] = "open"
    /\ peer[s] = "up"
    /\ peer' = [peer EXCEPT ![s] = "gone"]
    /\ UNCHANGED <<pc, conn, inbox, msg, userMessage, out, werr, nprompt, nreq, req>>
    /\ UNCHANGED callVars

\* One iteration of the read loop up to the call of queryOllamaStreaming:
\* ReadJSON, the switch on msg["type"], and the response_start write.
\* ReadJSON blocks while nothing has arrived and the peer is still there.
ReadJSON(s, maxPrompts) ==
    /\ pc[s] = "read"
    /\ status' = [status EXCEPT ![s] = 0]
    /\ body' = [body EXCEPT ![s] = <<>>]
    /\ pos' = [pos EXCEPT ![s] = 1]
    /\ cb' = [cb EXCEPT ![s] = <<>>]
    /\ err' = [err EXCEPT ![s] = FALSE]
    /\ UNCHANGED <<respOpen, peer, nreq, req>>
    /\ IF conn[s] # "open" \/ (inbox[s] = 0 /\ peer[s] = "gone")
       THEN \* read on a closed connection, or the peer has disconnected
            /\ msg' = [msg EXCEPT ![s] = ReadFailed]
            /\ OnReadError(s)
            /\ UNCHANGED <<inbox, userMessage, out, werr, nprompt>>
       ELSE /\ inbox[s] > 0
            /\ inbox' = [inbox EXCEPT ![s] = @ - 1]
            /\ \E m \in InboundFrames :
                  /\ IsMessage(m) => nprompt[s] < maxPrompts
                  /\ msg' = [msg EXCEPT ![s] = m]
                  /\ IF ~m.ok
                     THEN /\ OnReadError(s)
                          /\ UNCHANGED <<userMessage, out, werr, nprompt>>
                     ELSE IF IsMessage(m)
                     THEN /\ userMessage' = [userMessage EXCEPT ![s] = ContentOf(m)]
                          /\ nprompt' = [nprompt EXCEPT ![s] = @ + 1]
                          /\ WriteJSON(s, <<ResponseStart>>, nprompt[s] + 1)
                          /\ pc' = [pc EXCEPT ![s] = "post"]
                          /\ UNCHANGED conn
                     ELSE \* default: ignore unknown message types
                          /\ userMessage' = [userMessage EXCEPT ![s] = ""]
                          /\ UNCHANGED <<pc, conn, out, werr, nprompt>>

\* queryOllamaStreaming up to the decode loop: build the request, http.Post.
Post(s, maxBody) ==
    /\ pc[s] = "post"
    /\ nreq' = [nreq EXCEPT ![s] = @ + 1]
    /\ req' = [req EXCEPT ![s] = OllamaRequest(userMessage[s])]
    /\ pos' = [pos EXCEPT ![s] = 1]
    /\ cb' = [cb EXCEPT ![s] = <<>>]
    /\ \/ \* http.Post returned an error: return err
          /\ pc' = [pc EXCEPT ![s] = "ret"]
          /\ err' = [err EXCEPT ![s] = TRUE]
          /\ UNCHANGED <<status, body, respOpen>>
       \/ \* a response arrived, whatever its status
          /\ \E st \in {StatusOK, StatusErr} :
             \E b \in (IF st = StatusOK THEN BodiesUpTo(maxBody) ELSE {ErrorBody}) :
                /\ status' = [status EXCEPT ![s] = st]
                /\ body' = [body EXCEPT ![s] = b]
          /\ respOpen' = [respOpen EXCEPT ![s] = TRUE]
          /\ pc' = [pc EXCEPT ![s] = "more"]
          /\ UNCHANGED err
    /\ UNCHANGED <<conn, peer, inbox, msg, userMessage, out, werr, nprompt>>

\* Faulty variant of DecodeStep: `continue` on a Decode error; the decoder
\* does not move past the bytes it could not decode.
DecodeStepSkipBad(s) ==
    /\ pc[s] = "more"
    /\ LET b == body[s]
           i == pos[s]
       IN IF ~More(b, i)
          THEN /\ pc' = [pc EXCEPT ![s] = "ret"]
               /\ CloseBody(s)
               /\ UNCHANGED <<pos, cb, err, out, werr>>
          ELSE IF DecodeFails(b[i])
          THEN UNCHANGED <<pc, err, respOpen, pos, cb, out, werr>>
          ELSE /\ cb' = [cb EXCEPT ![s] = Append(@, [text |-> b[i].text, done |-> b[i].done])]
               /\ WriteJSON(s, Callback(b[i].text, b[i].done), nprompt[s])
               /\ pos' = [pos EXCEPT ![s] = i + 1]
               /\ IF BreakOnDone(b[i].done)
                  THEN /\ pc' = [pc EXCEPT ![s] = "ret"]
                       /\ CloseBody(s)
                  ELSE UNCHANGED <<pc, respOpen>>
               /\ UNCHANGED err
    /\ UNCHANGED <<conn, peer, inbox, msg, userMessage, nprompt, nreq, req, status, body>>

\* One iteration of `for decoder.More() { Decode; callback; break on done }`,
\* or the exit from the loop; every exit runs the deferred resp.Body.Close().
DecodeStep(s) ==
    /\ pc[s] = "more"
    /\ LET b == body[s]
           i == pos[s]
       IN IF ~More(b, i)
          THEN \* loop ends: return nil
               /\ pc' = [pc EXCEPT ![s] = "ret"]
               /\ CloseBody(s)
               /\ UNCHANGED <<pos, cb, err, out, werr>>
          ELSE IF DecodeFails(b[i])
          THEN \* return err
               /\ pc' = [pc EXCEPT ![s] = "ret"]
               /\ err' = [err EXCEPT ![s] = TRUE]
               /\ CloseBody(s)
               /\ UNCHANGED <<pos, cb, out, werr>>
          ELSE /\ cb' = [cb EXCEPT ![s] = Append(@, [text |-> b[i].text, done |-> b[i].done])]
               /\ WriteJSON(s, Callback(b[i].text, b[i].done), nprompt[s])
               /\ pos' = [pos EXCEPT ![s] = i + 1]
               /\ IF BreakOnDone(b[i].done)
                  THEN /\ pc' = [pc EXCEPT ![s] = "ret"]
                       /\ CloseBody(s)
                  ELSE UNCHANGED <<pc, respOpen>>
               /\ UNCHANGED err
    /\ UNCHANGED <<conn, peer, inbox, msg, userMessage, nprompt, nreq, req, status, body>>

\* Faulty variant of Return: the test of err is inverted.
ReturnErrorInverted(s) ==
    /\ pc[s] = "ret"
    /\ WriteJSON(s, IF ~err[s] THEN ErrorFrames ELSE <<>>, nprompt[s])
    /\ pc' = [pc EXCEPT ![s] = "read"]
    /\ UNCHANGED <<conn, peer, inbox, msg, userMessage, nprompt, nreq, req>>
    /\ UNCHANGED callVars

\* Faulty variant of Return: a backend error ends the read loop.
ReturnBreakOnError(s) ==
    /\ pc[s] = "ret"
    /\ WriteJSON(s, IF err[s] THEN ErrorFrames ELSE <<>>, nprompt[s])
    /\ IF err[s]
       THEN OnReadError(s)
       ELSE pc' = [pc EXCEPT ![s] = "read"] /\ UNCHANGED conn
    /\ UNCHANGED <<peer, inbox, msg, userMessage, nprompt, nreq, req>>
    /\ UNCHANGED callVars

\* queryOllamaStreaming has returned: `if err != nil { error chunk; response_end }`,
\* then back to the top of the read loop.
Return(s) ==
    /\ pc[s] = "ret"
    /\ WriteJSON(s, IF err[s] THEN ErrorFrames ELSE <<>>, nprompt[s])
    /\ pc' = [pc EXCEPT ![s] = "read"]
    /\ UNCHANGED <<conn, peer, inbox, msg, userMessage, nprompt, nreq, req>>
    /\ UNCHANGED callVars

Step(s, maxPrompts, maxBody, maxInbox) ==
    \/ Upgrade(s)
    \/ ClientSend(s, maxInbox)
    \/ ClientGone(s)
    \/ ReadJSON(s, maxPrompts)
    \/ Post(s, maxBody)
    \/ DecodeStep(s)
    \/ Return(s)

\* One connection.
Next == \E s \in Solo : Step(s, MaxPrompts, MaxBody, MaxInbox)

Spec == Init /\ [][Next]_vars

\* Several connections, each a goroutine of its own, with one prompt and a
\* body of at most one item per connection.
NextMulti == \E s \in Sessions : Step(s, MaxPrompts - 1, MaxBody - 1, MaxInbox)

SpecMulti == Init /\ [][NextMulti]_vars

\* The steps of one prompt's handling by session s: they need the backend to
\* answer and the goroutine to be scheduled, nothing from the peer.
Handling(s, maxBody) == Post(s, maxBody) \/ DecodeStep(s) \/ Return(s)

\* One connection whose backend answers every request with a finite body and
\* whose writes return.
SpecLive == Spec /\ \A s \in Solo : WF_vars(Handling(s, MaxBody))

\* Two connections: the backend answers connection 2, and may leave the
\* request of connection 1 unanswered for ever (http.Post has no timeout).
SpecMultiStall == SpecMulti /\ WF_vars(Handling(2, MaxBody - 1))

\* ------------------------------------------------- reading the histories
\* The frames session s wrote while handling its p-th prompt, without the tag.
PromptFrames(s, p) ==
    LET fs == SelectSeq(out[s], LAMBDA f : f.p = p)
    IN [i \in 1..Len(fs) |-> [type |-> fs[i].type, content |-> fs[i].content]]

\* The frames of the prompt session s is handling or has just handled.
CurrentFrames(s) == PromptFrames(s, nprompt[s])

\* The texts of the done=false fragments of a sequence of body items, as chunks.
ChunksOf(items) ==
    LET nf == SelectSeq(items, LAMBDA x : ~x.done)
    IN [i \in 1..Len(nf) |-> ResponseChunk(nf[i].text)]

\* Index of the first item of body b that is not a done=false fragment
\* (Len(b) + 1 when there is none).
FirstStop(b) ==
    LET stops == {i \in 1..Len(b) : b[i].k # "frag" \/ b[i].done}
    IN IF stops = {} THEN Len(b) + 1
       ELSE CHOOSE i \in stops : \A j \in stops : i <= j

\* The body's stream reaches a done=true fragment / undecodable bytes / a
\* stray closer / its end, before anything else stops it.
EndsWithDone(b)   == FirstStop(b) <= Len(b) /\ b[FirstStop(b)].k = "frag"
EndsWithBad(b)    == FirstStop(b) <= Len(b) /\ b[FirstStop(b)].k = "bad"
EndsWithCloser(b) == FirstStop(b) <= Len(b) /\ b[FirstStop(b)].k = "closer"
Exhausted(b)      == FirstStop(b) = Len(b) + 1

\* The non-final fragments at the head of body b.
Head_(b) == SubSeq(b, 1, FirstStop(b) - 1)

\* The objects the backend client is to hand to the callback for body b.
Objects(b) ==
    LET n == IF EndsWithDone(b) THEN FirstStop(b) ELSE FirstStop(b) - 1
    IN [i \in 1..n |-> [text |-> b[i].text, done |-> b[i].done]]

\* Session s has handled a prompt and is back at the top of its read loop,
\* about to receive the next inbound frame.
PromptHandled(s) ==
    pc[s] = "read" /\ msg[s].ok /\ msg[s].type = Str("message")

\* The latest backend call of session s failed before any response was there.
OpenFailed(s) == err[s] /\ status[s] = 0

\* Everything session t owns.
View(t) == <<pc[t], conn[t], peer[t], inbox[t], msg[t], userMessage[t], out[t],
             werr[t], nprompt[t], nreq[t], req[t], status[t], body[t], pos[t], cb[t],
             err[t], respOpen[t]>>

\* A step in which session s's ReadJSON returns an error.
ReadFails(s) == msg[s].ok /\ ~msg'[s].ok

\* response_start, zero or more response_chunk, response_end.
Bracketed(fs) ==
    /\ Len(fs) >= 2
    /\ fs[1] = ResponseStart
    /\ fs[Len(fs)] = ResponseEnd
    /\ \A i \in 2..(Len(fs) - 1) : fs[i].type = "response_chunk"

\* ------------------------------------------------------------------ claims

\* C1: when a session is about to receive the next inbound frame, the frames of
\* every prompt it has handled are one response_start, zero or more
\* response_chunk, one response_end - for every backend outcome.
C1_Bracketing ==
    \A s \in Sessions :
        pc[s] = "read" => \A p \in 1..nprompt[s] : Bracketed(PromptFrames(s, p))

\* C2: the chunks of a prompt that precede any error chunk are the texts of the
\* done=false fragments the backend produced, one per fragment, in order, and
\* the frames of one connection are grouped by prompt, in prompt order.
C2_ChunkOrder ==
    \A s \in Sessions :
        /\ pc[s] = "more" =>
              CurrentFrames(s) =
                 <<ResponseStart>> \o ChunksOf(SubSeq(body[s], 1, pos[s] - 1))
        /\ (pc[s] = "ret" \/ PromptHandled(s)) =>
              /\ Len(CurrentFrames(s)) >= 1 + Len(Head_(body[s]))
              /\ SubSeq(CurrentFrames(s), 1, 1 + Len(Head_(body[s]))) =
                    <<ResponseStart>> \o ChunksOf(Head_(body[s]))
              /\ \A i \in (2 + Len(Head_(body[s])))..Len(CurrentFrames(s)) :
                    CurrentFrames(s)[i] \in {ResponseChunk(ErrorText), ResponseEnd}
        /\ \A i, j \in 1..Len(out[s]) : i < j => out[s][i].p <= out[s][j].p

C2_Witness ==
    /\ PromptHandled(1)
    /\ nprompt[1] = 2
    /\ body[1] = <<Frag("", FALSE), Frag("a", FALSE)>>
    /\ PromptFrames(1, 1) = <<ResponseStart, ResponseChunk("a"), ResponseEnd>>
    /\ PromptFrames(1, 2) = <<ResponseStart, ResponseChunk(""), ResponseChunk("a")>>

\* C3: reading a well-formed frame whose type is not "message" sends nothing,
\* issues no backend request, leaves the connection open and the session at
\* the top of its read loop.
C3_OtherTypeIgnored ==
    [][\A s \in Sessions :
          (pc[s] = "read" /\ inbox'[s] < inbox[s]
             /\ msg'[s].ok /\ msg'[s].type # Str("message"))
          => /\ out'[s] = out[s]
             /\ nreq'[s] = nreq[s]
             /\ conn'[s] = "open"
             /\ pc'[s] = "read"]_vars

C3_Witness ==
    /\ pc[1] = "read"
    /\ conn[1] = "open"
    /\ msg[1] = Frame(Num, Str("hi"))
    /\ nprompt[1] = 1
    /\ Len(out[1]) = 3

\* C4: when the backend request cannot be opened, the frames of the prompt are
\* response_start, the fixed error chunk, response_end, the callback was never
\* invoked, and the session is open at the top of its read loop.
C4_OpenFailure ==
    \A s \in Sessions :
        /\ (pc[s] = "ret" /\ OpenFailed(s)) =>
              cb[s] = <<>> /\ CurrentFrames(s) = <<ResponseStart>>
        /\ (PromptHandled(s) /\ OpenFailed(s)) =>
              /\ CurrentFrames(s) =
                    <<ResponseStart, ResponseChunk(ErrorText), ResponseEnd>>
              /\ cb[s] = <<>>
              /\ conn[s] = "open"

C4_Witness ==
    /\ PromptHandled(1)
    /\ OpenFailed(1)
    /\ nprompt[1] = 2
    /\ PromptFrames(1, 1) = <<ResponseStart, ResponseChunk(ErrorText), ResponseEnd>>

\* C5: when the backend answers with a non-200 status, the backend call returns
\* an error without having invoked the callback, and the prompt's frames are
\* response_start, the fixed error chunk, response_end.
C5_NonSuccessStatus ==
    \A s \in Sessions :
        /\ (pc[s] = "ret" /\ status[s] = StatusErr) => err[s] /\ cb[s] = <<>>
        /\ (PromptHandled(s) /\ status[s] = StatusErr) =>
              CurrentFrames(s) =
                 <<ResponseStart, ResponseChunk(ErrorText), ResponseEnd>>

\* C6: for a stream of done=false fragments f1..fn followed by a done=true
\* fragment, the prompt's frames are response_start, the chunks f1..fn and
\* response_end: the text of the done=true fragment is not sent.
C6_DoneTextNotForwarded ==
    \A s \in Sessions :
        (PromptHandled(s) /\ EndsWithDone(body[s])) =>
            CurrentFrames(s) =
               <<ResponseStart>> \o ChunksOf(Head_(body[s])) \o <<ResponseEnd>>

C6_Witness ==
    /\ PromptHandled(1)
    /\ body[1] = <<Frag("", FALSE), Frag("a", TRUE)>>
    /\ CurrentFrames(1) = <<ResponseStart, ResponseChunk(""), ResponseEnd>>

\* C7: the callback is invoked once per decoded object, in stream order, up to
\* and including the first done=true object; nothing behind that object is
\* decoded or delivered, and the call then returns nil.
C7_CallbackPerObject ==
    \A s \in Sessions :
        /\ pc[s] = "more" =>
              /\ cb[s] = Objects(SubSeq(body[s], 1, pos[s] - 1))
              /\ \A i \in 1..Len(cb[s]) : ~cb[s][i].done
        /\ (pc[s] = "ret" /\ status[s] # 0) =>
              /\ cb[s] = Objects(body[s])
              /\ EndsWithDone(body[s]) =>
                    ~err[s] /\ pos[s] = FirstStop(body[s]) + 1

C7_Witness ==
    /\ pc[1] = "ret"
    /\ body[1] = <<Frag("a", TRUE), Frag("a", FALSE)>>
    /\ cb[1] = <<[text |-> "a", done |-> TRUE]>>
    /\ ~err[1]

\* C8: when malformed data follows k done=false fragments, the prompt's frames
\* are response_start, the k chunks, one fixed error chunk and one
\* response_end, and the session is open at the top of its read loop.
C8_MalformedMidStream ==
    \A s \in Sessions :
        (PromptHandled(s) /\ (EndsWithBad(body[s]) \/ EndsWithCloser(body[s]))) =>
            /\ CurrentFrames(s) =
                  <<ResponseStart>> \o ChunksOf(Head_(body[s]))
                     \o <<ResponseChunk(ErrorText), ResponseEnd>>
            /\ conn[s] = "open"

\* C9: when ReadJSON returns an error the session leaves its read loop and
\* closes the connection without sending anything or calling the backend, and
\* a session that has left its loop reads, sends and requests nothing more.
C9_ReadErrorTerminates ==
    [][\A s \in Sessions :
          /\ ReadFails(s) =>
                /\ pc'[s] = "done"
                /\ conn'[s] = "closed"
                /\ out'[s] = out[s]
                /\ nreq'[s] = nreq[s]
          /\ pc[s] = "done" =>
                /\ pc'[s] = "done"
                /\ conn'[s] = conn[s]
                /\ inbox'[s] = inbox[s]
                /\ out'[s] = out[s]
                /\ nreq'[s] = nreq[s]]_vars

C9_Witness ==
    /\ pc[1] = "done"
    /\ conn[1] = "closed"
    /\ ~msg[1].ok
    /\ nprompt[1] = 1
    /\ Len(out[1]) = 3

\* C10: a step in which one session's ReadJSON fails changes nothing that any
\* other session owns.
C10_OtherSessionsUnaffected ==
    [][\A s \in Sessions :
          ReadFails(s) => \A t \in Sessions \ {s} : View(t)' = View(t)]_vars

C10_Witness ==
    /\ pc[1] = "done"
    /\ ~msg[1].ok
    /\ conn[1] = "closed"
    /\ conn[2] = "open"
    /\ PromptHandled(2)
    /\ CurrentFrames(2) = <<ResponseStart, ResponseEnd>>

\* Session s wrote a response_end while handling its p-th prompt.
HasEnd(s, p) ==
    \E i \in 1..Len(PromptFrames(s, p)) : PromptFrames(s, p)[i] = ResponseEnd

\* The request that the message frame m calls for.
RequestFor(m) ==
    [model |-> "llama2",
     prompt |-> IF m.content.k = "str" THEN m.content.v ELSE "",
     stream |-> TRUE]

\* Session s is handling a prompt (between its response_start and the return
\* to the top of the read loop).
InPrompt(s) == pc[s] \in {"post", "more", "ret"}

\* C11: a session has at most one backend response open, and only inside its
\* single backend call; when the request of a later prompt has been issued,
\* every earlier prompt has had its response_end sent.
C11_SequentialPrompts ==
    \A s \in Sessions :
        /\ respOpen[s] => pc[s] = "more"
        /\ nreq[s] <= nprompt[s]
        /\ \A p \in 1..(nreq[s] - 1) : HasEnd(s, p)

\* C12: a session leaves its read loop, and its connection stops being open,
\* only in a step in which ReadJSON fails (or the handshake does); whatever the
\* backend call returned, the session goes back to the top of the loop with
\* the connection as it was, and the next "message" frame it reads gets a
\* response_start of its own.
C12_BackendFailureSurvived ==
    [][\A s \in Sessions :
          /\ (pc[s] # "done" /\ pc'[s] = "done") =>
                (pc[s] = "upgrade" \/ (pc[s] = "read" /\ ~msg'[s].ok))
          /\ (conn[s] = "open" /\ conn'[s] # "open") =>
                (pc[s] = "read" /\ ~msg'[s].ok)
          /\ (pc[s] = "ret" /\ pc'[s] # "ret") =>
                (pc'[s] = "read" /\ conn'[s] = conn[s])
          /\ (pc[s] = "read" /\ inbox'[s] < inbox[s]
                /\ msg'[s].ok /\ msg'[s].type = Str("message")) =>
                /\ pc'[s] = "post"
                /\ out'[s] = Append(out[s], [type |-> "response_start",
                                             content |-> Nil,
                                             p |-> nprompt[s] + 1])]_vars

C12_Witness ==
    /\ pc[1] = "post"
    /\ conn[1] = "open"
    /\ nprompt[1] = 2
    /\ PromptFrames(1, 1) = <<ResponseStart, ResponseChunk("a"),
                              ResponseChunk(ErrorText), ResponseEnd>>
    /\ PromptFrames(1, 2) = <<ResponseStart>>

\* C13: a "message" frame whose content is absent or not a string is handled
\* as the prompt "": response_start is sent, one request with the empty prompt
\* is issued, and the session stays in its loop.
C13_NonStringContent ==
    \A s \in Sessions :
        (msg[s].ok /\ msg[s].type = Str("message") /\ msg[s].content.k # "str") =>
            /\ pc[s] \in {"post", "more", "ret", "read"}
            /\ conn[s] = "open"
            /\ userMessage[s] = ""
            /\ Len(CurrentFrames(s)) >= 1
            /\ CurrentFrames(s)[1] = ResponseStart
            /\ pc[s] = "post" => nreq[s] = nprompt[s] - 1
            /\ pc[s] # "post" =>
                  /\ nreq[s] = nprompt[s]
                  /\ req[s] = [model |-> "llama2", prompt |-> "", stream |-> TRUE]

C13_Witness ==
    /\ PromptHandled(1)
    /\ msg[1].content = Num
    /\ req[1].prompt = ""
    /\ nreq[1] = 1
    /\ CurrentFrames(1) = <<ResponseStart, ResponseChunk("a"), ResponseEnd>>

\* C14: one request per "message" frame dispatched, built from that frame's
\* content with stream = true, issued after the prompt's response_start and
\* before any other frame of the prompt; no request before the first message.
C14_OneRequestPerMessage ==
    \A s \in Sessions :
        /\ pc[s] = "post" =>
              /\ nreq[s] = nprompt[s] - 1
              /\ CurrentFrames(s) = <<ResponseStart>>
        /\ pc[s] # "post" => nreq[s] = nprompt[s]
        /\ nprompt[s] = 0 => req[s] = NoRequest
        /\ ((pc[s] \in {"more", "ret"} \/ PromptHandled(s)) /\ msg[s].ok) =>
              req[s] = RequestFor(msg[s])

C14_Witness ==
    /\ pc[1] = "more"
    /\ nprompt[1] = 2
    /\ nreq[1] = 2
    /\ req[1] = [model |-> "llama2", prompt |-> "hi", stream |-> TRUE]

\* C15: a response body is open exactly while the decode loop runs: it is
\* released at every exit from the loop, none is open when the session is at
\* the top of its read loop, and none was ever open when the request failed.
C15_BodyReleased ==
    \A s \in Sessions :
        /\ respOpen[s] <=> pc[s] = "more"
        /\ OpenFailed(s) => ~respOpen[s]

C15_Witness ==
    /\ PromptHandled(1)
    /\ EndsWithBad(body[1])
    /\ Len(cb[1]) = 1
    /\ ~respOpen[1]

\* C16: once a write has failed because the peer is gone, the prompt being
\* handled still runs to its return, and the session then starts no further
\* prompt.
C16_SendFailureEndsLoop ==
    [][\A s \in Sessions :
          /\ (werr[s] /\ InPrompt(s) /\ pc'[s] # pc[s]) =>
                pc'[s] \in {"more", "ret", "read"}
          /\ (werr[s] /\ pc[s] = "read") =>
                (pc'[s] \in {"read", "done"} /\ nprompt'[s] = nprompt[s])]_vars

\* C17: while the backend leaves session 1's request unanswered, session 1
\* sends nothing, reads nothing and requests nothing, and session 2 still
\* brings every prompt it handles to its end.
C17_StallIsLocal ==
    /\ [][(pc[1] = "post" /\ pc'[1] = "post") =>
             /\ out'[1] = out[1]
             /\ inbox'[1] >= inbox[1]
             /\ msg'[1] = msg[1]
             /\ nreq'[1] = nreq[1]]_vars
    /\ (pc[1] = "post" /\ InPrompt(2)) ~> (pc[2] = "read")

C17_Witness ==
    /\ pc[1] = "post"
    /\ out[1] = <<[type |-> "response_start", content |-> Nil, p |-> 1]>>
    /\ PromptHandled(2)
    /\ CurrentFrames(2) = <<ResponseStart, ResponseEnd>>

\* C18: in the frames of a prompt a response_end is the last frame and
\* response_start the first and only one; on the connection a response_end is
\* followed by nothing but a response_start; and a call that delivered a
\* done=true object returns nil, so no error chunk is written for it.
C18_SingleEnd ==
    \A s \in Sessions :
        /\ \A p \in 1..nprompt[s] :
              LET fs == PromptFrames(s, p)
              IN \A i \in 1..Len(fs) :
                    /\ fs[i] = ResponseEnd => i = Len(fs)
                    /\ fs[i] = ResponseStart <=> i = 1
        /\ \A i \in 1..(Len(out[s]) - 1) :
              out[s][i].type = "response_end" => out[s][i + 1].type = "response_start"
        /\ ((pc[s] = "ret" \/ PromptHandled(s))
              /\ \E i \in 1..Len(cb[s]) : cb[s][i].done) =>
              /\ ~err[s]
              /\ \A i \in 1..Len(CurrentFrames(s)) :
                    CurrentFrames(s)[i] # ResponseChunk(ErrorText)

C18_Witness ==
    /\ PromptHandled(1)
    /\ nprompt[1] = 2
    /\ PromptFrames(1, 1) = <<ResponseStart, ResponseChunk(ErrorText), ResponseEnd>>
    /\ PromptFrames(1, 2) = <<ResponseStart, ResponseChunk(""), ResponseEnd>>
    /\ cb[1] = <<[text |-> "", done |-> FALSE], [text |-> "a", done |-> TRUE]>>

\* C19: when the backend answers with a finite body and writes return, every
\* prompt a session starts to handle brings it back to the top of its read loop.
C19_PromptTerminates ==
    \A s \in Solo : InPrompt(s) ~> (pc[s] = "read")

C19_Witness ==
    /\ PromptHandled(1)
    /\ nprompt[1] = 2
    /\ Len(body[1]) = 2
    /\ Exhausted(body[1])

====
